---- MODULE Spec2Model ----
(***************************************************************************)
(* Ticket-scoped payment verification bot (TicketCog, PaymentCog,          *)
(* MessageHandler and the button views of src/src).                        *)
(*                                                                         *)
(* Grain of atomicity: discord.py runs every event handler as its own      *)
(* asyncio task, and a task can only be interleaved with another at an     *)
(* `await`.  An action of this model is the code a handler runs between    *)
(* two awaits whose order against other tasks matters (a read of a store   *)
(* followed by a later write of it, a wait for user input).  A handler     *)
(* that is suspended between two actions sits in a slot of `calls` or      *)
(* `engines`.                                                              *)
(*                                                                         *)
(* Queries are modelled by their relational meaning: `.first()` returns a  *)
(* matching row or None, `.scalar_one_or_none()` returns the only matching *)
(* row, None, or raises MultipleResultsFound.                              *)
(***************************************************************************)
EXTENDS Integers, Sequences, FiniteSets, TLC

\* ---------------------------------------------------------------- bounds
MaxChannels == 2        \* channels the transport creates in one run
MaxCalls    == 2        \* handler invocations suspended at the same time
MaxEngines  == 2        \* conversations running at the same time
MaxIntents  == 2        \* PaymentIntents the gateway creates in one run
MaxClock    == 2        \* readings of datetime.utcnow() stored in a run

\* ------------------------------------------------------------- universes
Users == {"u1", "u2"}                \* Discord accounts of customers
Admins == {"admin"}                  \* accounts that administer the guild
Accounts == Users \cup Admins
NULL == 0                            \* a nullable column that is not set
NoChannel == 0                       \* channel_id: Optional[int] = None

VARIABLES
    users,          \* discord ids that own a row of table `users`
    premium,        \* User.premium of every account (FALSE without a row)
    tickets,        \* table `tickets`: sequence of rows, index = Ticket.id
    payments,       \* table `payments`: set of rows
    created,        \* channels the guild ever created: created[c] = member
    channels,       \* channel ids guild.get_channel still resolves
    gateway,        \* PaymentIntents held by the gateway, index = intent no.
    calls,          \* suspended create_ticket / check_payment invocations
    engines,        \* start_ticket_conversation instances
    restartViews,   \* channels showing a live RestartPaymentView
    clock,          \* datetime.utcnow(), counted in stored readings
    last            \* the reply a handler sent when it finished

vars == <<users, premium, tickets, payments, created, channels, gateway,
          calls, engines, restartViews, clock, last>>

\* ------------------------------------------------------------ records
\* Column names follow src/src/core/models.py.
TicketRow(u, ch) ==
    [user_id |-> u, channel_id |-> ch, closed_at |-> NULL, deleted_at |-> NULL]

PaymentRow(u, ref, order) ==
    [user_id |-> u, payment_intent_id |-> ref, order_id |-> order,
     confirmed |-> TRUE]

\* A free slot of `calls`.  A check_payment call keeps what it read when it
\* began: `entitled` is user.premium of the row get_user loaded, `owner`
\* whether a confirmed Payment of the user was stored at that moment; `raced`
\* records that another call on the same order id was in flight with it.
\* A check_subscription call keeps the `attempt` of get_user_email's loop, the
\* `email` it was given and how often it called get_customer_by_email.
IdleCall ==
    [op |-> "none", user |-> "-", pc |-> "idle", chan |-> NoChannel,
     ref |-> 0, order |-> "", entitled |-> FALSE, owner |-> FALSE,
     raced |-> FALSE, attempt |-> 0, email |-> "", lookups |-> 0]

\* A free slot of `engines`.
IdleEngine ==
    [state |-> "IDLE", chan |-> NoChannel, user |-> "-", currency |-> "-",
     amount |-> 0, order_id |-> "-", intent |-> 0, got |-> 0]

\* What a handler told the user when it ended.
Reply(op, u, outcome, ch, ref) ==
    [op |-> op, user |-> u, outcome |-> outcome, chan |-> ch, ref |-> ref,
     raced |-> FALSE]

NoReply == Reply("none", "-", "-", NoChannel, 0)

\* A ticket is live when neither closed_at nor deleted_at is set.
Live(t) == t.closed_at = NULL /\ t.deleted_at = NULL

LiveTickets(u) == {i \in DOMAIN tickets : tickets[i].user_id = u /\ Live(tickets[i])}

\* Lowest free slot of calls / engines (one choice instead of a symmetric set).
FreeCalls == {s \in DOMAIN calls : calls[s].op = "none"}
FreeCall == CHOOSE s \in FreeCalls : \A x \in FreeCalls : s <= x
FreeEngines == {e \in DOMAIN engines : engines[e].state = "IDLE"}
FreeEngine == CHOOSE e \in FreeEngines : \A x \in FreeEngines : e <= x

\* The handler in slot s ends: the slot is freed, the reply recorded.
Finish(s, reply) ==
    /\ calls' = [calls EXCEPT ![s] = IdleCall]
    /\ last' = reply

\* ------------------------------------------------------------- Init
\* The tables, the guild's channels and the gateway's PaymentIntents outlive
\* the process (main.py never awaits init_db); handlers, conversations and
\* views do not.  A run starts on empty stores, or on the stores an earlier
\* run left behind.
SeedUser == "u2"
SeedOrder == "ORD1"

InitProcess ==
    /\ calls = [s \in 1..MaxCalls |-> IdleCall]
    /\ engines = [e \in 1..MaxEngines |-> IdleEngine]
    /\ restartViews = {}
    /\ clock = 0
    /\ last = NoReply

InitEmpty ==
    /\ users = {}
    /\ premium = [u \in Users |-> FALSE]
    /\ tickets = << >>
    /\ created = << >>
    /\ channels = {}
    /\ payments = {}
    /\ gateway = << >>

\* An earlier run opened a ticket for "u1" and its conversation obtained a
\* PaymentIntent for SeedOrder that is not paid yet.
InitPending ==
    /\ users = {"u1"}
    /\ premium = [u \in Users |-> FALSE]
    /\ tickets = << TicketRow("u1", 1) >>
    /\ created = << "u1" >>
    /\ channels = {1}
    /\ payments = {}
    /\ gateway = << [amount |-> 5995, currency |-> "usd", order_id |-> SeedOrder,
                     status |-> "requires_payment_method"] >>

\* An earlier run committed the confirmation of SeedUser: premium is set, the
\* Payment row of SeedOrder is stored, the ticket and its channel remain.
InitSeeded ==
    /\ users = {SeedUser}
    /\ premium = [u \in Users |-> u = SeedUser]
    /\ tickets = << TicketRow(SeedUser, 1) >>
    /\ created = << SeedUser >>
    /\ channels = {1}
    /\ payments = {PaymentRow(SeedUser, 1, SeedOrder)}
    /\ gateway = << [amount |-> 5995, currency |-> "usd", order_id |-> SeedOrder,
                     status |-> "succeeded"] >>

Init == InitProcess /\ (InitEmpty \/ InitPending \/ InitSeeded)

\* An earlier run committed the confirmation of SeedUser in channel 1, and
\* "u1" has opened a ticket in channel 2.
InitTwo ==
    /\ users = {SeedUser, "u1"}
    /\ premium = [u \in Users |-> u = SeedUser]
    /\ tickets = << TicketRow(SeedUser, 1), TicketRow("u1", 2) >>
    /\ created = << SeedUser, "u1" >>
    /\ channels = {1, 2}
    /\ payments = {PaymentRow(SeedUser, 1, SeedOrder)}
    /\ gateway = << [amount |-> 5995, currency |-> "usd", order_id |-> SeedOrder,
                     status |-> "succeeded"] >>

\* An earlier run opened a ticket for "u1"; the Stripe account holds a
\* PaymentIntent that was not created by the bot and has no order_id in its
\* metadata.
InitForeign ==
    /\ users = {"u1"}
    /\ premium = [u \in Users |-> FALSE]
    /\ tickets = << TicketRow("u1", 1) >>
    /\ created = << "u1" >>
    /\ channels = {1}
    /\ payments = {}
    /\ gateway = << [amount |-> 5995, currency |-> "usd", order_id |-> "",
                     status |-> "requires_payment_method"] >>

\* ------------------------------------------------- Ticket Lifecycle
\* TicketCog.get_existing_ticket: rows of the user with closed_at IS NULL,
\* narrowed to one channel when channel_id is given; scalar_one_or_none().
MatchingTickets(u, ch) ==
    {i \in DOMAIN tickets :
        /\ tickets[i].user_id = u
        /\ tickets[i].closed_at = NULL
        /\ (ch # NoChannel => tickets[i].channel_id = ch)}

get_existing_ticket(u, ch) ==
    LET m == MatchingTickets(u, ch) IN
    IF Cardinality(m) > 1 THEN [raised |-> TRUE, row |-> 0]
    ELSE IF m = {} THEN [raised |-> FALSE, row |-> 0]
    ELSE [raised |-> FALSE, row |-> CHOOSE i \in m : TRUE]

\* start_ticket_conversation as it would be if the answers were kept on the
\* cog: the new instance starts with the currency answered before.
start_ticket_conversation_remembers(ch, u) ==
    /\ FreeEngines # {}
    /\ engines' = [engines EXCEPT ![FreeEngine] =
                     [IdleEngine EXCEPT !.state = "AWAITING_CURRENCY",
                                        !.chan = ch, !.user = u,
                                        !.currency = "USD"]]

\* TicketCog.start_ticket_conversation is entered: a new instance that
\* select_currency suspends on its CurrencyView.
start_ticket_conversation(ch, u) ==
    /\ FreeEngines # {}
    /\ engines' = [engines EXCEPT ![FreeEngine] =
                     [IdleEngine EXCEPT !.state = "AWAITING_CURRENCY",
                                        !.chan = ch, !.user = u]]

\* create_ticket, lines 107-121, for the call in slot s of user u.
create_ticket_lookup(s, u) ==
    LET existing == get_existing_ticket(u, NoChannel) IN
    IF existing.raised
    THEN \* MultipleResultsFound, caught at line 141
         /\ Finish(s, Reply("create_ticket", u, "Error", NoChannel, 0))
         /\ UNCHANGED <<tickets, clock>>
    ELSE IF existing.row # 0 /\ tickets[existing.row].channel_id \in channels
    THEN /\ Finish(s, Reply("create_ticket", u, "AlreadyOpen",
                            tickets[existing.row].channel_id, 0))
         /\ UNCHANGED <<tickets, clock>>
    ELSE IF existing.row # 0
    THEN \* the channel is gone: the row is marked deleted, then a new ticket
         /\ clock < MaxClock
         /\ clock' = clock + 1
         /\ tickets' = [tickets EXCEPT ![existing.row].deleted_at = clock + 1]
         /\ calls' = [calls EXCEPT ![s] =
                        [IdleCall EXCEPT !.op = "create_ticket", !.user = u,
                                         !.pc = "create_channel"]]
         /\ last' = NoReply
    ELSE /\ calls' = [calls EXCEPT ![s] =
                        [IdleCall EXCEPT !.op = "create_ticket", !.user = u,
                                         !.pc = "create_channel"]]
         /\ UNCHANGED <<tickets, clock>> /\ last' = NoReply

\* RequestTicket: `start_payment`, or the words "verify payment" seen by
\* MessageHandler.on_message.  Runs to the first store read that matters.
create_ticket(u) ==
    /\ FreeCalls # {}
    /\ IF u \in users
       THEN /\ create_ticket_lookup(FreeCall, u)
            /\ UNCHANGED users
       ELSE \* get_or_create_user found no row: db.add(user), await commit
            /\ calls' = [calls EXCEPT ![FreeCall] =
                           [IdleCall EXCEPT !.op = "create_ticket", !.user = u,
                                            !.pc = "add_user"]]
            /\ UNCHANGED <<users, tickets, clock>> /\ last' = NoReply
    /\ UNCHANGED <<premium, payments, created, channels, gateway, engines,
                   restartViews>>

\* get_or_create_user's commit arrives: users.discord_id is unique.
get_or_create_user(s) ==
    /\ calls[s].op = "create_ticket" /\ calls[s].pc = "add_user"
    /\ IF calls[s].user \in users
       THEN \* IntegrityError, caught at line 141
            /\ Finish(s, Reply("create_ticket", calls[s].user, "Error", NoChannel, 0))
            /\ UNCHANGED <<users, tickets, clock>>
       ELSE /\ users' = users \cup {calls[s].user}
            /\ create_ticket_lookup(s, calls[s].user)
    /\ UNCHANGED <<premium, payments, created, channels, gateway, engines,
                   restartViews>>

\* TicketCog.create_ticket_channel: guild.create_text_channel answers.
create_ticket_channel(s) ==
    /\ calls[s].op = "create_ticket" /\ calls[s].pc = "create_channel"
    /\ \/ /\ Len(created) < MaxChannels
          /\ created' = Append(created, calls[s].user)
          /\ channels' = channels \cup {Len(created) + 1}
          /\ calls' = [calls EXCEPT ![s].pc = "insert",
                                    ![s].chan = Len(created) + 1]
          /\ last' = NoReply
       \/ \* discord.HTTPException / Forbidden, caught at line 141
          /\ Finish(s, Reply("create_ticket", calls[s].user, "Error", NoChannel, 0))
          /\ UNCHANGED <<created, channels>>
    /\ UNCHANGED <<users, premium, tickets, payments, gateway, engines,
                   restartViews, clock>>

\* create_ticket, lines 124-140: the row is committed, the greeting is sent
\* into the new channel, the conversation starts.  The commit of line 130 is
\* the one step between the channel and the row that can raise.
create_ticket_insert(s) ==
    /\ calls[s].op = "create_ticket" /\ calls[s].pc = "insert"
    /\ \/ /\ tickets' = Append(tickets, TicketRow(calls[s].user, calls[s].chan))
          /\ IF calls[s].chan \in channels
             THEN /\ start_ticket_conversation(calls[s].chan, calls[s].user)
                  /\ Finish(s, Reply("create_ticket", calls[s].user, "Created",
                                     calls[s].chan, 0))
             ELSE \* ticket_channel.send raises NotFound, caught at line 141
                  /\ Finish(s, Reply("create_ticket", calls[s].user, "Error",
                                     calls[s].chan, 0))
                  /\ UNCHANGED engines
       \/ \* db.commit raises SQLAlchemyError, caught at line 141
          /\ Finish(s, Reply("create_ticket", calls[s].user, "Error",
                             calls[s].chan, 0))
          /\ UNCHANGED <<tickets, engines>>
    /\ UNCHANGED <<users, premium, payments, created, channels, gateway,
                   restartViews, clock>>

\* TicketCog.delete_ticket.
delete_ticket(u) ==
    /\ IF u \notin users
       THEN /\ last' = Reply("delete_ticket", u, "NoUser", NoChannel, 0)
            /\ UNCHANGED <<tickets, channels, restartViews, clock>>
       ELSE LET existing == get_existing_ticket(u, NoChannel) IN
            IF existing.raised
            THEN /\ last' = Reply("delete_ticket", u, "Error", NoChannel, 0)
                 /\ UNCHANGED <<tickets, channels, restartViews, clock>>
            ELSE IF existing.row = 0
            THEN /\ last' = Reply("delete_ticket", u, "NotFound", NoChannel, 0)
                 /\ UNCHANGED <<tickets, channels, restartViews, clock>>
            ELSE LET ch == tickets[existing.row].channel_id IN
                 \/ /\ clock < MaxClock
                    /\ clock' = clock + 1
                    /\ channels' = channels \ {ch}
                    /\ restartViews' = restartViews \ {ch}
                    /\ tickets' = [tickets EXCEPT ![existing.row].deleted_at = clock + 1]
                    /\ last' = Reply("delete_ticket", u, "Deleted", ch, 0)
                 \/ \* ticket_channel.delete() raises, caught at line 65
                    /\ ch \in channels
                    /\ last' = Reply("delete_ticket", u, "Error", ch, 0)
                    /\ UNCHANGED <<tickets, channels, restartViews, clock>>
    /\ UNCHANGED <<users, premium, payments, created, gateway, calls, engines>>

\* The guild loses a ticket channel without the bot (an admin removes it):
\* guild.get_channel returns None from now on.
ChannelRemoved(ch) ==
    /\ ch \in channels
    /\ channels' = channels \ {ch}
    /\ restartViews' = restartViews \ {ch}
    /\ UNCHANGED <<users, premium, tickets, payments, created, gateway, calls,
                   engines, clock>>
    /\ last' = NoReply


\* ------------------------------------------------ Conversation Engine
\* Who can read and use a ticket channel: the member it was created for
\* (the permission overwrites of create_ticket_channel) and the guild's
\* administrators.  No view and no handler checks more than that.
Viewers(ch) == {u \in Accounts : ch \in channels /\ (created[ch] = u \/ u \in Admins)}

Currencies == {"USD", "EUR", "GBP"}          \* the buttons of CurrencyView
\* select_amount's list [59.95, 168.95, 666.95]: a float is written as its
\* number of hundredths.
amounts == {5995, 16895, 66695}
OrderInputs == {"ORD1", "ORD2", " "}         \* texts typed into OrderIDModal
NoRef == -1                                  \* a message without any "pi_"

\* str.strip() on the modelled inputs.
strip(text) == IF text = " " THEN "" ELSE text

\* int(amount * 100) as it would be if the product fell just below the
\* whole number, as it does for other prices (int(19.99 * 100) is 1998).
minor_units_truncated(amount) ==
    amount - 1

\* int(amount * 100) of TicketCog.confirm_payment, in IEEE-754 doubles:
\* 59.95 * 100 = 5995.0, 168.95 * 100 = 16895.0, 666.95 * 100 = 66695.0.
minor_units(amount) ==
    CASE amount = 5995 -> 5995
      [] amount = 16895 -> 16895
      [] amount = 66695 -> 66695

\* str.lower() on the currency codes.
lower(cur) ==
    CASE cur = "USD" -> "usd"
      [] cur = "EUR" -> "eur"
      [] cur = "GBP" -> "gbp"

\* core.utils.create_payment_intent: the PaymentIntent the gateway creates.
create_payment_intent(amount, currency, order_id) ==
    [amount |-> amount, currency |-> currency, order_id |-> order_id,
     status |-> "requires_payment_method"]

\* The waits that end at a timeout, as they would be if CurrencyView passed
\* timeout=None to discord.ui.View.
Waiting_without_currency ==
    {"AWAITING_AMOUNT", "AWAITING_ORDER_ID", "AWAITING_CONFIRM_CLICK",
     "AWAITING_CONFIRMATION_ARTIFACT"}

Waiting == {"AWAITING_CURRENCY", "AWAITING_AMOUNT", "AWAITING_ORDER_ID",
            "AWAITING_CONFIRM_CLICK", "AWAITING_CONFIRMATION_ARTIFACT"}

\* The instance in slot e returns from start_ticket_conversation.
Retire(e, outcome) ==
    /\ engines' = [engines EXCEPT ![e] = IdleEngine]
    /\ last' = Reply("conversation", engines[e].user, outcome,
                     engines[e].chan, engines[e].intent)

\* CurrencyView.usd / eur / gbp, then select_currency returns the value.
\* select_currency as it would be if it returned the code in lower case.
select_currency_lower(e, by, cur) ==
    /\ engines[e].state = "AWAITING_CURRENCY"
    /\ by \in Viewers(engines[e].chan)
    /\ engines' = [engines EXCEPT ![e].currency = lower(cur),
                                  ![e].state = "AWAITING_AMOUNT"]
    /\ UNCHANGED <<users, premium, tickets, payments, created, channels,
                   gateway, calls, restartViews, clock>>
    /\ last' = NoReply

select_currency(e, by, cur) ==
    /\ engines[e].state = "AWAITING_CURRENCY"
    /\ by \in Viewers(engines[e].chan)
    /\ engines' = [engines EXCEPT ![e].currency = cur,
                                  ![e].state = "AWAITING_AMOUNT"]
    /\ UNCHANGED <<users, premium, tickets, payments, created, channels,
                   gateway, calls, restartViews, clock>>
    /\ last' = NoReply

\* select_amount as it would be if the step went on without the amount of
\* the pressed button.
select_amount_unset(e, by, amt) ==
    /\ engines[e].state = "AWAITING_AMOUNT"
    /\ by \in Viewers(engines[e].chan)
    /\ engines' = [engines EXCEPT ![e].amount = 0,
                                  ![e].state = "AWAITING_ORDER_ID"]
    /\ UNCHANGED <<users, premium, tickets, payments, created, channels,
                   gateway, calls, restartViews, clock>>
    /\ last' = NoReply

\* AmountButton.callback, then select_amount returns the value.
select_amount(e, by, amt) ==
    /\ engines[e].state = "AWAITING_AMOUNT"
    /\ by \in Viewers(engines[e].chan)
    /\ engines' = [engines EXCEPT ![e].amount = amt,
                                  ![e].state = "AWAITING_ORDER_ID"]
    /\ UNCHANGED <<users, premium, tickets, payments, created, channels,
                   gateway, calls, restartViews, clock>>
    /\ last' = NoReply

\* provide_order_id with confirm_payment (ticket.py) as it would be if the
\* StripeError were swallowed there and the step went on without an intent.
provide_order_id_swallows(e, by, text) ==
    /\ engines[e].state = "AWAITING_ORDER_ID"
    /\ by \in Viewers(engines[e].chan)
    /\ IF strip(text) = ""
       THEN /\ Retire(e, "NoOrderId")
            /\ UNCHANGED gateway
       ELSE \/ /\ Len(gateway) < MaxIntents
               /\ gateway' = Append(gateway,
                      create_payment_intent(minor_units(engines[e].amount),
                                            lower(engines[e].currency),
                                            strip(text)))
               /\ engines' = [engines EXCEPT ![e].order_id = strip(text),
                                             ![e].intent = Len(gateway) + 1,
                                             ![e].state = "AWAITING_CONFIRM_CLICK"]
               /\ last' = NoReply
            \/ /\ engines' = [engines EXCEPT ![e].order_id = strip(text),
                                             ![e].state = "AWAITING_CONFIRM_CLICK"]
               /\ last' = NoReply
               /\ UNCHANGED gateway
    /\ UNCHANGED <<users, premium, tickets, payments, created, channels,
                   calls, restartViews, clock>>

\* provide_order_id as it would be without `if not order_id: return`.
provide_order_id_unchecked(e, by, text) ==
    /\ engines[e].state = "AWAITING_ORDER_ID"
    /\ by \in Viewers(engines[e].chan)
    /\ Len(gateway) < MaxIntents
    /\ gateway' = Append(gateway,
           create_payment_intent(minor_units(engines[e].amount),
                                 lower(engines[e].currency), strip(text)))
    /\ engines' = [engines EXCEPT ![e].order_id = strip(text),
                                  ![e].intent = Len(gateway) + 1,
                                  ![e].state = "AWAITING_CONFIRM_CLICK"]
    /\ last' = NoReply
    /\ UNCHANGED <<users, premium, tickets, payments, created, channels,
                   calls, restartViews, clock>>

\* OrderIDModal.on_submit, provide_order_id returns, and confirm_payment
\* (ticket.py) calls core.utils.create_payment_intent before its next await.
provide_order_id(e, by, text) ==
    /\ engines[e].state = "AWAITING_ORDER_ID"
    /\ by \in Viewers(engines[e].chan)
    /\ IF strip(text) = ""
       THEN \* `if not order_id: return`
            /\ Retire(e, "NoOrderId")
            /\ UNCHANGED gateway
       ELSE \/ /\ Len(gateway) < MaxIntents
               /\ gateway' = Append(gateway,
                      create_payment_intent(minor_units(engines[e].amount),
                                            lower(engines[e].currency),
                                            strip(text)))
               /\ engines' = [engines EXCEPT ![e].order_id = strip(text),
                                             ![e].intent = Len(gateway) + 1,
                                             ![e].state = "AWAITING_CONFIRM_CLICK"]
               /\ last' = NoReply
            \/ \* stripe.error.StripeError, re-raised, caught at line 179
               /\ Retire(e, "Error")
               /\ UNCHANGED gateway
    /\ UNCHANGED <<users, premium, tickets, payments, created, channels,
                   calls, restartViews, clock>>

\* confirm_payment (ticket.py) as it would be if it returned None after the
\* button was pressed: the conversation ends there.
confirm_click_returns_none(e, by) ==
    /\ engines[e].state = "AWAITING_CONFIRM_CLICK"
    /\ by \in Viewers(engines[e].chan)
    /\ Retire(e, "NoIntent")
    /\ UNCHANGED <<users, premium, tickets, payments, created, channels,
                   gateway, calls, restartViews, clock>>

\* ConfirmPaymentView.confirm_payment: "I have completed the payment".
confirm_click(e, by) ==
    /\ engines[e].state = "AWAITING_CONFIRM_CLICK"
    /\ by \in Viewers(engines[e].chan)
    /\ engines' = [engines EXCEPT ![e].state = "AWAITING_CONFIRMATION_ARTIFACT"]
    /\ UNCHANGED <<users, premium, tickets, payments, created, channels,
                   gateway, calls, restartViews, clock>>
    /\ last' = NoReply

\* handle_timeout as it would be if select_currency returned None without
\* calling it: the currency step ends without the restart view.
handle_timeout_silent(e) ==
    /\ engines[e].state \in Waiting
    /\ IF engines[e].chan \in channels
       THEN /\ Retire(e, "Timeout")
            /\ restartViews' =
                  IF engines[e].state = "AWAITING_CURRENCY" THEN restartViews
                  ELSE restartViews \cup {engines[e].chan}
       ELSE /\ Retire(e, "Error")
            /\ UNCHANGED restartViews
    /\ UNCHANGED <<users, premium, tickets, payments, created, channels,
                   gateway, calls, clock>>

\* A wait ends without input: View.wait() returns with nothing selected, or
\* wait_for raises asyncio.TimeoutError; handle_timeout posts the restart view.
handle_timeout(e) ==
    /\ engines[e].state \in Waiting
    /\ IF engines[e].chan \in channels
       THEN /\ Retire(e, "Timeout")
            /\ restartViews' = restartViews \cup {engines[e].chan}
       ELSE \* channel.send raises NotFound
            /\ Retire(e, "Error")
            /\ UNCHANGED restartViews
    /\ UNCHANGED <<users, premium, tickets, payments, created, channels,
                   gateway, calls, clock>>

\* upload_payment_confirmation as it would be if a mismatch sent the
\* conversation back to its first step.
upload_payment_confirmation_again(e) ==
    /\ engines[e].state = "GOT_MESSAGE"
    /\ IF engines[e].got # engines[e].intent
       THEN /\ engines' = [engines EXCEPT ![e].state = "AWAITING_CURRENCY"]
            /\ last' = NoReply
            /\ UNCHANGED restartViews
       ELSE /\ Retire(e, "Done")
            /\ restartViews' = restartViews \cup ({engines[e].chan} \cap channels)
    /\ UNCHANGED <<users, premium, tickets, payments, created, channels,
                   gateway, calls, clock>>

\* upload_payment_confirmation resumes with the message wait_for handed it.
upload_payment_confirmation(e) ==
    /\ engines[e].state = "GOT_MESSAGE"
    /\ IF engines[e].got # engines[e].intent
       THEN \* "The PaymentIntent ID does not match", return None
            /\ Retire(e, "Mismatch")
            /\ UNCHANGED restartViews
       ELSE \* lines 168-178: restart view and notify_admins
            /\ Retire(e, "Done")
            /\ restartViews' = restartViews \cup ({engines[e].chan} \cap channels)
    /\ UNCHANGED <<users, premium, tickets, payments, created, channels,
                   gateway, calls, clock>>

\* RestartPaymentView.start_over: the button starts a conversation for
\* whoever pressed it, in the channel of the view.
start_over(by, ch) ==
    /\ ch \in restartViews
    /\ by \in Viewers(ch)
    /\ start_ticket_conversation(ch, by)
    /\ UNCHANGED <<users, premium, tickets, payments, created, channels,
                   gateway, calls, restartViews, clock>>
    /\ last' = NoReply

\* The RestartPaymentView stops taking clicks (timeout=60, or stop()).
RestartViewExpires(ch) ==
    /\ ch \in restartViews
    /\ restartViews' = restartViews \ {ch}
    /\ UNCHANGED <<users, premium, tickets, payments, created, channels,
                   gateway, calls, engines, clock>>
    /\ last' = NoReply

\* TicketCog.restart_payment, typed by u in ticket channel ch.
restart_payment(u, ch) ==
    /\ u \in Viewers(ch)
    /\ IF u \notin users
       THEN /\ last' = Reply("restart_payment", u, "NoUser", ch, 0)
            /\ UNCHANGED engines
       ELSE LET existing == get_existing_ticket(u, ch) IN
            IF existing.raised
            THEN /\ last' = Reply("restart_payment", u, "Error", ch, 0)
                 /\ UNCHANGED engines
            ELSE IF existing.row = 0
            THEN /\ last' = Reply("restart_payment", u, "NotYourChannel", ch, 0)
                 /\ UNCHANGED engines
            ELSE /\ start_ticket_conversation(ch, u)
                 /\ last' = Reply("restart_payment", u, "Restarted", ch, 0)
    /\ UNCHANGED <<users, premium, tickets, payments, created, channels,
                   gateway, calls, restartViews, clock>>

\* The customer pays at the gateway: the intent's status becomes acceptable.
PaymentSucceeds(i) ==
    /\ i \in DOMAIN gateway
    /\ gateway[i].status = "requires_payment_method"
    /\ gateway' = [gateway EXCEPT ![i].status = "succeeded"]
    /\ UNCHANGED <<users, premium, tickets, payments, created, channels,
                   calls, engines, restartViews, clock>>
    /\ last' = NoReply

\* ------------------------------------------------ Confirmation Verifier
acceptable_statuses == {"succeeded", "processing", "requires_capture"}

\* A Python value handed from verify_payment to confirm_payment: either a
\* bool or a stripe.PaymentIntent (id = its index in `gateway`).
Bool(b) == [type |-> "bool", truth |-> b, id |-> 0]
PaymentIntent(i) == [type |-> "PaymentIntent", truth |-> TRUE, id |-> i]

\* verify_payment_intent as it would be if `except stripe.error.StripeError`
\* returned True.
verify_payment_intent_lenient(ref, api_ok) ==
    IF ~api_ok \/ ref \notin DOMAIN gateway
    THEN Bool(TRUE)
    ELSE Bool(gateway[ref].status \in acceptable_statuses)

\* core.utils.verify_payment_intent(payment_intent_id) -> bool.  api_ok is
\* FALSE when stripe.PaymentIntent.retrieve raises StripeError for a reason
\* other than an unknown id.
verify_payment_intent(ref, api_ok) ==
    IF ~api_ok \/ ref \notin DOMAIN gateway
    THEN Bool(FALSE)
    ELSE Bool(gateway[ref].status \in acceptable_statuses)

\* verify_payment as it would be if it returned the stripe.PaymentIntent that
\* its annotation (Optional[stripe.PaymentIntent]) names.
verify_payment_returns_intent(ref, api_ok) ==
    IF verify_payment_intent(ref, api_ok).truth
    THEN PaymentIntent(ref)
    ELSE Bool(FALSE)

\* PaymentCog.verify_payment: hands the executor's result through.
verify_payment(ref, api_ok) == verify_payment_intent(ref, api_ok)

\* metadata.get('order_id') as it would be if the order id came from the
\* message (here a second order id) instead of the gateway's record.
metadata_order_id_typed(v) ==
    [raised |-> FALSE, value |-> "ORD2"]

\* `payment_intent.metadata.get('order_id')`: a bool has no attribute
\* `metadata` (AttributeError); a PaymentIntent yields its metadata entry.
metadata_order_id(v) ==
    IF v.type = "PaymentIntent"
    THEN [raised |-> FALSE, value |-> gateway[v.id].order_id]
    ELSE [raised |-> TRUE, value |-> ""]

\* The order id the gateway holds for a reference ("" when it holds none).
ResolvedOrder(ref) ==
    IF ref \in DOMAIN gateway THEN gateway[ref].order_id ELSE ""

\* on_message as it would be if payment_check did not compare m.channel.
on_message_any_channel(author, ch, ref, att) ==
    LET waiters == {e \in DOMAIN engines :
                       /\ att # "none"
                       /\ engines[e].state = "AWAITING_CONFIRMATION_ARTIFACT"
                       /\ engines[e].user = author}
    IN
    /\ author \in Viewers(ch)
    /\ ref \in {NoRef} \cup (0..Len(gateway))
    /\ waiters # {} \/ ref # NoRef \/ att = "none"
    /\ engines' = [e \in DOMAIN engines |->
                     IF e \in waiters
                     THEN [engines[e] EXCEPT !.state = "GOT_MESSAGE", !.got = ref]
                     ELSE engines[e]]
    /\ IF ref = NoRef \/ att = "none"
       THEN calls' = calls /\ last' = NoReply
       ELSE IF author \notin users
       THEN /\ last' = Reply("check_payment", author, "NoUser", ch, ref)
            /\ UNCHANGED calls
       ELSE IF att # "image"
       THEN \* get_valid_attachment: the file name has no image extension
            /\ last' = Reply("check_payment", author, "InvalidAttachment", ch, ref)
            /\ UNCHANGED calls
       ELSE /\ FreeCalls # {}
            /\ calls' = [calls EXCEPT ![FreeCall] =
                           [IdleCall EXCEPT !.op = "check_payment",
                                            !.user = author, !.pc = "verify",
                                            !.chan = ch, !.ref = ref,
                                            !.entitled = premium[author],
                                            !.owner = \E p \in payments :
                                                p.user_id = author /\ p.confirmed]]
            /\ last' = NoReply
    /\ UNCHANGED <<users, premium, tickets, payments, created, channels,
                   gateway, restartViews, clock>>

\* MessageHandler.on_message sees a message with an attachment in a ticket
\* channel.  ref is the "pi_..." word of its text (0: one the gateway never
\* issued, NoRef: the text holds no "pi_"), att the kind of attachments[0]
\* ("none": the message has no attachment, it is text only).
\* bot.wait_for hands the message to every upload_payment_confirmation whose
\* payment_check accepts it; 'pi_' in the text makes the handler run
\* PaymentCog.check_payment up to `await self.verify_payment(...)`.
on_message(author, ch, ref, att) ==
    LET waiters == {e \in DOMAIN engines :
                       /\ att # "none"
                       /\ engines[e].state = "AWAITING_CONFIRMATION_ARTIFACT"
                       /\ engines[e].user = author
                       /\ engines[e].chan = ch}
    IN
    /\ author \in Viewers(ch)
    /\ ref \in {NoRef} \cup (0..Len(gateway))
    /\ waiters # {} \/ ref # NoRef \/ att = "none"
    /\ engines' = [e \in DOMAIN engines |->
                     IF e \in waiters
                     THEN [engines[e] EXCEPT !.state = "GOT_MESSAGE", !.got = ref]
                     ELSE engines[e]]
    /\ IF ref = NoRef \/ att = "none"
       THEN calls' = calls /\ last' = NoReply
       ELSE IF author \notin users
       THEN /\ last' = Reply("check_payment", author, "NoUser", ch, ref)
            /\ UNCHANGED calls
       ELSE IF att # "image"
       THEN \* get_valid_attachment: the file name has no image extension
            /\ last' = Reply("check_payment", author, "InvalidAttachment", ch, ref)
            /\ UNCHANGED calls
       ELSE /\ FreeCalls # {}
            /\ calls' = [calls EXCEPT ![FreeCall] =
                           [IdleCall EXCEPT !.op = "check_payment",
                                            !.user = author, !.pc = "verify",
                                            !.chan = ch, !.ref = ref,
                                            !.entitled = premium[author],
                                            !.owner = \E p \in payments :
                                                p.user_id = author /\ p.confirmed]]
            /\ last' = NoReply
    /\ UNCHANGED <<users, premium, tickets, payments, created, channels,
                   gateway, restartViews, clock>>

\* How confirm_payment ends after its commit (lines 221-261): the role is
\* added and the admins are notified; guild.get_role finds no role, and the
\* handler returns before add_roles and notify_admins; add_roles raises, the
\* user is told, and the admins are notified.
GrantOutcomes == {"Accepted", "RoleNotFound", "GrantFailed"}

\* confirm_payment as it would be if its `except Exception` handler cleared
\* user.premium and committed.
confirm_payment_revokes(s, api_ok) ==
    LET c == calls[s]
        u == c.user
        \* other check_payment calls in flight on the same order id
        others == {x \in DOMAIN calls \ {s} :
                      /\ calls[x].op = "check_payment"
                      /\ ResolvedOrder(calls[x].ref) # ""
                      /\ ResolvedOrder(calls[x].ref) = ResolvedOrder(c.ref)}
        raced == c.raced \/ others # {}
        End(outcome) ==
            /\ calls' = [x \in DOMAIN calls |->
                           IF x = s THEN IdleCall
                           ELSE IF x \in others THEN [calls[x] EXCEPT !.raced = TRUE]
                           ELSE calls[x]]
            /\ last' = [Reply("check_payment", u, outcome, c.chan, c.ref)
                          EXCEPT !.raced = raced]
        Suspend(pc, order) ==
            /\ calls' = [x \in DOMAIN calls |->
                           IF x = s THEN [c EXCEPT !.pc = pc, !.order = order,
                                                   !.raced = raced]
                           ELSE IF x \in others THEN [calls[x] EXCEPT !.raced = TRUE]
                           ELSE calls[x]]
            /\ last' = NoReply
    IN
    /\ c.op = "check_payment"
    /\ CASE c.pc = "verify" ->
              LET payment_intent == verify_payment(c.ref, api_ok)
                  order_id == metadata_order_id(payment_intent)
              IN
              /\ IF ~payment_intent.truth
                 THEN End("GatewayVerificationFailed")
                 ELSE IF order_id.raised
                 THEN End("Error")
                 ELSE IF order_id.value = ""
                 THEN End("OrderIdMissing")
                 ELSE Suspend("select", order_id.value)
              /\ premium' = [premium EXCEPT ![u] =
                                premium[u] /\ ~order_id.raised]
              /\ UNCHANGED payments
         [] c.pc = "select" ->
              /\ api_ok
              /\ IF \E p \in payments : p.order_id = c.order
                 THEN End("DuplicateOrder")
                 ELSE Suspend("commit", c.order)
              /\ UNCHANGED <<premium, payments>>
         [] c.pc = "commit" ->
              /\ api_ok
              /\ IF \E p \in payments : p.order_id = c.order
                 THEN \* IntegrityError on payments.order_id, line 263
                      /\ End("Error")
                      /\ UNCHANGED <<premium, payments>>
                 ELSE /\ premium' = [premium EXCEPT ![u] = TRUE]
                      /\ payments' = payments \cup {PaymentRow(u, c.ref, c.order)}
                      /\ \E grant \in GrantOutcomes : End(grant)
    /\ UNCHANGED <<users, tickets, created, channels, gateway, engines,
                   restartViews, clock>>

\* PaymentCog.confirm_payment for the call in slot s, resumed at the await it
\* is suspended in: verify_payment (line 179), the select by order id (line
\* 197), the commit (line 219).
confirm_payment(s, api_ok) ==
    LET c == calls[s]
        u == c.user
        \* other check_payment calls in flight on the same order id
        others == {x \in DOMAIN calls \ {s} :
                      /\ calls[x].op = "check_payment"
                      /\ ResolvedOrder(calls[x].ref) # ""
                      /\ ResolvedOrder(calls[x].ref) = ResolvedOrder(c.ref)}
        raced == c.raced \/ others # {}
        End(outcome) ==
            /\ calls' = [x \in DOMAIN calls |->
                           IF x = s THEN IdleCall
                           ELSE IF x \in others THEN [calls[x] EXCEPT !.raced = TRUE]
                           ELSE calls[x]]
            /\ last' = [Reply("check_payment", u, outcome, c.chan, c.ref)
                          EXCEPT !.raced = raced]
        Suspend(pc, order) ==
            /\ calls' = [x \in DOMAIN calls |->
                           IF x = s THEN [c EXCEPT !.pc = pc, !.order = order,
                                                   !.raced = raced]
                           ELSE IF x \in others THEN [calls[x] EXCEPT !.raced = TRUE]
                           ELSE calls[x]]
            /\ last' = NoReply
    IN
    /\ c.op = "check_payment"
    /\ CASE c.pc = "verify" ->
              LET payment_intent == verify_payment(c.ref, api_ok)
                  order_id == metadata_order_id(payment_intent)
              IN
              /\ IF ~payment_intent.truth
                 THEN End("GatewayVerificationFailed")
                 ELSE IF order_id.raised
                 THEN End("Error")             \* except Exception, line 263
                 ELSE IF order_id.value = ""
                 THEN End("OrderIdMissing")
                 ELSE Suspend("select", order_id.value)
              /\ UNCHANGED <<premium, payments>>
         [] c.pc = "select" ->
              /\ api_ok
              /\ IF \E p \in payments : p.order_id = c.order
                 THEN End("DuplicateOrder")
                 ELSE Suspend("commit", c.order)
              /\ UNCHANGED <<premium, payments>>
         [] c.pc = "commit" ->
              /\ api_ok
              /\ IF \E p \in payments : p.order_id = c.order
                 THEN \* IntegrityError on payments.order_id, line 263
                      /\ End("Error")
                      /\ UNCHANGED <<premium, payments>>
                 ELSE /\ premium' = [premium EXCEPT ![u] = TRUE]
                      /\ payments' = payments \cup {PaymentRow(u, c.ref, c.order)}
                      /\ \E grant \in GrantOutcomes : End(grant)
    /\ UNCHANGED <<users, tickets, created, channels, gateway, engines,
                   restartViews, clock>>

\* --------------------------------------------------- Subscription check
\* The number of waits of get_user_email (max_retries of check_subscription).
MAX_RETRIES == 3

EmailInputs == {"a@b.c", " "}
LookupResults == {"NoCustomer", "NoSubscription", "RemainingDays"}

\* SubscriptionCog.check_subscription up to the first wait of get_user_email:
\* the prompt is sent as a DM; without it the command returns.
check_subscription(u) ==
    /\ FreeCalls # {}
    /\ \/ /\ calls' = [calls EXCEPT ![FreeCall] =
                         [IdleCall EXCEPT !.op = "check_subscription",
                                          !.user = u, !.pc = "get_user_email",
                                          !.attempt = 1]]
          /\ last' = NoReply
       \/ \* discord.Forbidden in send_dm: `if not dm_sent: return`
          /\ last' = Reply("check_subscription", u, "DmRefused", NoChannel, 0)
          /\ UNCHANGED calls
    /\ UNCHANGED <<users, premium, tickets, payments, created, channels,
                   gateway, engines, restartViews, clock>>

\* The calls of user `by` whose wait_for accepts a DM written by `by`.
EmailWaiters(by) ==
    {s \in DOMAIN calls : /\ calls[s].op = "check_subscription"
                          /\ calls[s].user = by
                          /\ calls[s].pc = "get_user_email"}

\* A DM of `by` arrives: wait_for returns it to every get_user_email of that
\* user, which returns content.strip(); check_subscription returns on a
\* falsy email, otherwise process_subscription calls get_customer_by_email
\* and suspends in send_dm.
get_user_email(by, text) ==
    /\ EmailWaiters(by) # {}
    /\ calls' = [s \in DOMAIN calls |->
                   IF s \notin EmailWaiters(by) THEN calls[s]
                   ELSE IF strip(text) = "" THEN IdleCall
                   ELSE [calls[s] EXCEPT !.pc = "process_subscription",
                                         !.email = strip(text),
                                         !.lookups = calls[s].lookups + 1]]
    /\ last' = IF strip(text) = ""
               THEN Reply("check_subscription", by, "NoEmail", NoChannel, 0)
               ELSE NoReply
    /\ UNCHANGED <<users, premium, tickets, payments, created, channels,
                   gateway, engines, restartViews, clock>>

\* wait_for raises asyncio.TimeoutError in get_user_email.  The reply of the
\* notice carries the number of attempts that remain in its `ref` field.
get_user_email_timeout(s) ==
    /\ calls[s].op = "check_subscription" /\ calls[s].pc = "get_user_email"
    /\ IF calls[s].attempt < MAX_RETRIES
       THEN /\ calls' = [calls EXCEPT ![s].attempt = calls[s].attempt + 1]
            /\ last' = Reply("check_subscription", calls[s].user,
                             "AttemptsRemaining", NoChannel,
                             MAX_RETRIES - calls[s].attempt)
       ELSE \* "Session Timed Out", return None, `if not email: return`
            Finish(s, Reply("check_subscription", calls[s].user,
                            "SessionTimedOut", NoChannel, 0))
    /\ UNCHANGED <<users, premium, tickets, payments, created, channels,
                   gateway, engines, restartViews, clock>>

\* process_subscription after get_customer_by_email answered: the result is
\* sent as a DM and the command returns.
process_subscription(s, result) ==
    /\ calls[s].op = "check_subscription"
    /\ calls[s].pc = "process_subscription"
    /\ Finish(s, Reply("check_subscription", calls[s].user, result,
                       NoChannel, 0))
    /\ UNCHANGED <<users, premium, tickets, payments, created, channels,
                   gateway, engines, restartViews, clock>>

\* ----------------------------------------------------------------- Next
\* Ticket Lifecycle Manager: the commands and events of TicketCog.
LifecycleStep ==
    \/ \E u \in Users : create_ticket(u)
    \/ \E s \in DOMAIN calls : get_or_create_user(s)
    \/ \E s \in DOMAIN calls : create_ticket_channel(s)
    \/ \E s \in DOMAIN calls : create_ticket_insert(s)
    \/ \E u \in Users : delete_ticket(u)
    \/ \E ch \in channels : ChannelRemoved(ch)
    \/ \E u \in Users, ch \in channels : restart_payment(u, ch)

\* The waits of a conversation ending without input, and the restart button.
RestartStep ==
    \/ \E e \in DOMAIN engines : handle_timeout(e)
    \/ \E by \in Users, ch \in channels : start_over(by, ch)
    \/ \E ch \in channels : RestartViewExpires(ch)

\* The inputs a conversation waits for.
ConversationStep ==
    \/ \E e \in DOMAIN engines, by \in Users, cur \in Currencies :
          select_currency(e, by, cur)
    \/ \E e \in DOMAIN engines, by \in Users, amt \in amounts :
          select_amount(e, by, amt)
    \/ \E e \in DOMAIN engines, by \in Users, text \in OrderInputs :
          provide_order_id(e, by, text)
    \/ \E e \in DOMAIN engines, by \in Users : confirm_click(e, by)
    \/ \E e \in DOMAIN engines : upload_payment_confirmation(e)

\* Confirmation Verifier: messages in ticket channels and the gateway.
VerifierStep ==
    \/ \E i \in DOMAIN gateway : PaymentSucceeds(i)
    \/ \E author \in Users, ch \in channels, ref \in NoRef..MaxIntents,
          att \in {"image", "other"} : on_message(author, ch, ref, att)
    \/ \E s \in DOMAIN calls, api_ok \in BOOLEAN : confirm_payment(s, api_ok)

\* Subscription check: the command and the DMs that answer its prompt.
SubscriptionStep ==
    \/ \E u \in Users : check_subscription(u)
    \/ \E by \in Users, text \in EmailInputs : get_user_email(by, text)
    \/ \E s \in DOMAIN calls : get_user_email_timeout(s)
    \/ \E s \in DOMAIN calls, result \in LookupResults :
          process_subscription(s, result)

Next == LifecycleStep \/ RestartStep \/ ConversationStep \/ VerifierStep
           \/ SubscriptionStep

\* The whole bot.
Spec == Init /\ [][Next]_vars

\* The bot on empty tables, its conversations left unanswered: tickets, their
\* channels, and the start, timeout and restart of conversations.
InitTickets == InitProcess /\ InitEmpty
NextTickets == LifecycleStep \/ RestartStep
SpecTickets == InitTickets /\ [][NextTickets]_vars

\* The bot with conversations left unanswered: messages carrying a
\* PaymentIntent reference and their verification.
InitVerify == InitProcess /\ (InitPending \/ InitSeeded)
NextVerify == LifecycleStep \/ VerifierStep
SpecVerify == InitVerify /\ [][NextVerify]_vars

\* Messages carrying a PaymentIntent reference and their verification, in the
\* ticket channel an earlier run left.
InitGateway == InitProcess /\ (InitPending \/ InitTwo \/ InitForeign)
NextGateway == VerifierStep
SpecGateway == InitGateway /\ [][NextGateway]_vars

\* An earlier run opened a ticket for "u1"; nothing was answered yet.
InitEngine ==
    /\ InitProcess
    /\ users = {"u1"}
    /\ premium = [u \in Users |-> FALSE]
    /\ tickets = << TicketRow("u1", 1) >>
    /\ created = << "u1" >>
    /\ channels = {1}
    /\ payments = {}
    /\ gateway = << >>

\* Starting a conversation in an open ticket, and text typed into its channel.
ChannelStep ==
    \/ \E u \in Users, ch \in channels : restart_payment(u, ch)
    \/ \E author \in Users, ch \in channels : on_message(author, ch, NoRef, "none")

\* One conversation after the other in an open ticket, from the first button
\* to the uploaded confirmation, on one answer per step; the uploaded file is
\* not an image, so no verification starts.
NextEngine ==
    \/ ChannelStep
    \/ RestartStep
    \/ \E e \in DOMAIN engines, by \in Users : select_currency(e, by, "USD")
    \/ \E e \in DOMAIN engines, by \in Users : select_amount(e, by, 5995)
    \/ \E e \in DOMAIN engines, by \in Users, text \in {SeedOrder, " "} :
          provide_order_id(e, by, text)
    \/ \E e \in DOMAIN engines, by \in Users : confirm_click(e, by)
    \/ \E author \in Users, ch \in channels, ref \in NoRef..MaxIntents :
          on_message(author, ch, ref, "other")
    \/ \E e \in DOMAIN engines : upload_payment_confirmation(e)
    \/ \E ch \in channels : ChannelRemoved(ch)

SpecEngine == InitEngine /\ [][NextEngine]_vars

\* The first two steps of a conversation, on every button of their views.
NextButtons ==
    \/ ChannelStep
    \/ RestartStep
    \/ \E e \in DOMAIN engines, by \in Users, cur \in Currencies :
          select_currency(e, by, cur)
    \/ \E e \in DOMAIN engines, by \in Users, amt \in amounts :
          select_amount(e, by, amt)

SpecButtons == InitEngine /\ [][NextButtons]_vars

\* A conversation up to the creation of its PaymentIntent, on two currencies,
\* every amount, an order id and a blank text.
NextIntent ==
    \/ ChannelStep
    \/ RestartStep
    \/ \E e \in DOMAIN engines, by \in Users, cur \in {"USD", "EUR"} :
          select_currency(e, by, cur)
    \/ \E e \in DOMAIN engines, by \in Users, amt \in amounts :
          select_amount(e, by, amt)
    \/ \E e \in DOMAIN engines, by \in Users, text \in {SeedOrder, " "} :
          provide_order_id(e, by, text)

SpecIntent == InitEngine /\ [][NextIntent]_vars

\* One conversation after the other in an open ticket, on one answer per
\* step, whose uploaded confirmation is an image: MessageHandler.on_message
\* starts the verification of the same message.
NextArtifact ==
    \/ \E u \in Users, ch \in channels : restart_payment(u, ch)
    \/ \E e \in DOMAIN engines, by \in Users : select_currency(e, by, "USD")
    \/ \E e \in DOMAIN engines, by \in Users : select_amount(e, by, 5995)
    \/ \E e \in DOMAIN engines, by \in Users :
          provide_order_id(e, by, SeedOrder)
    \/ \E e \in DOMAIN engines, by \in Users : confirm_click(e, by)
    \/ \E author \in Users, ch \in channels, ref \in NoRef..MaxIntents :
          on_message(author, ch, ref, "image")
    \/ \E e \in DOMAIN engines : upload_payment_confirmation(e)
    \/ \E i \in DOMAIN gateway : PaymentSucceeds(i)
    \/ \E s \in DOMAIN calls, api_ok \in BOOLEAN : confirm_payment(s, api_ok)

SpecArtifact == InitEngine /\ [][NextArtifact]_vars

\* An earlier run left "u1" with two open tickets, channels 1 and 2 (two
\* create_ticket calls that ran together).
InitPair ==
    /\ InitProcess
    /\ users = {"u1"}
    /\ premium = [u \in Users |-> FALSE]
    /\ tickets = << TicketRow("u1", 1), TicketRow("u1", 2) >>
    /\ created = << "u1", "u1" >>
    /\ channels = {1, 2}
    /\ payments = {}
    /\ gateway = << >>

\* Conversations in two ticket channels of one user, side by side.
NextPair ==
    \/ \E u \in Users, ch \in channels : restart_payment(u, ch)
    \/ \E e \in DOMAIN engines, by \in Users : select_currency(e, by, "EUR")
    \/ \E e \in DOMAIN engines, by \in Users : select_amount(e, by, 5995)
    \/ \E e \in DOMAIN engines, by \in Users :
          provide_order_id(e, by, SeedOrder)
    \/ \E e \in DOMAIN engines, by \in Users : confirm_click(e, by)
    \/ \E author \in Users, ch \in channels, ref \in NoRef..MaxIntents :
          on_message(author, ch, ref, "other")
    \/ \E e \in DOMAIN engines : upload_payment_confirmation(e)

SpecPair == InitPair /\ [][NextPair]_vars

\* An earlier run opened a ticket for each of "u1" and "u2"; nothing was
\* answered yet.
InitOrders ==
    /\ InitProcess
    /\ users = {"u1", "u2"}
    /\ premium = [u \in Users |-> FALSE]
    /\ tickets = << TicketRow("u1", 1), TicketRow("u2", 2) >>
    /\ created = << "u1", "u2" >>
    /\ channels = {1, 2}
    /\ payments = {}
    /\ gateway = << >>

\* The conversations of two users' tickets up to their PaymentIntents, on the
\* same order id, the payment of the intents, and the verification of the
\* references posted with an image.
NextOrders ==
    \/ \E u \in Users, ch \in channels : restart_payment(u, ch)
    \/ \E e \in DOMAIN engines, by \in Users : select_currency(e, by, "USD")
    \/ \E e \in DOMAIN engines, by \in Users : select_amount(e, by, 5995)
    \/ \E e \in DOMAIN engines, by \in Users :
          provide_order_id(e, by, SeedOrder)
    \/ \E i \in DOMAIN gateway : PaymentSucceeds(i)
    \/ \E author \in Users, ch \in channels, ref \in 1..MaxIntents :
          on_message(author, ch, ref, "image")
    \/ \E s \in DOMAIN calls, api_ok \in BOOLEAN : confirm_payment(s, api_ok)

SpecOrders == InitOrders /\ [][NextOrders]_vars

\* One conversation after the other in an open ticket, its buttons pressed
\* and its channel written to by every account that can see the channel:
\* the ticket's user and the guild's administrators.
NextOwner ==
    \/ \E u \in Users, ch \in channels : restart_payment(u, ch)
    \/ \E e \in DOMAIN engines, by \in Accounts : select_currency(e, by, "USD")
    \/ \E e \in DOMAIN engines, by \in Accounts : select_amount(e, by, 5995)
    \/ \E e \in DOMAIN engines, by \in Accounts :
          provide_order_id(e, by, SeedOrder)
    \/ \E e \in DOMAIN engines, by \in Accounts : confirm_click(e, by)
    \/ \E author \in Accounts, ch \in channels, ref \in NoRef..MaxIntents :
          on_message(author, ch, ref, "other")
    \/ \E e \in DOMAIN engines : upload_payment_confirmation(e)
    \/ \E e \in DOMAIN engines : handle_timeout(e)

SpecOwner == InitEngine /\ [][NextOwner]_vars

\* The timers of the waits fire when no input ends the wait (View.wait()
\* returns at the view's timeout, wait_for raises at its timeout), and the
\* event loop resumes a conversation that was handed its message.
FairEngine ==
    \A e \in 1..MaxEngines :
       /\ WF_vars(handle_timeout(e))
       /\ WF_vars(upload_payment_confirmation(e))

SpecLive == InitEngine /\ [][NextEngine]_vars /\ FairEngine

\* The check_subscription command alone, on the stores an earlier run left.
InitSubscription == InitProcess /\ (InitEmpty \/ InitSeeded)
NextSubscription == SubscriptionStep
SpecSubscription == InitSubscription /\ [][NextSubscription]_vars

\* ------------------------------------------------------------ properties
\* Conversations of channel ch that are suspended in a wait or hold a message.
EnginesOf(ch) ==
    {e \in DOMAIN engines : engines[e].state # "IDLE" /\ engines[e].chan = ch}

\* The step of confirm_payment that ends the call in slot s.
Ends(s, api_ok) == confirm_payment(s, api_ok) /\ calls'[s].op = "none"

\* The gateway holds the reference with a status verify_payment_intent accepts.
Acceptable(ref) ==
    ref \in DOMAIN gateway /\ gateway[ref].status \in acceptable_statuses

\* Payment rows stored under an order id.
RowsOf(order) == {p \in payments : p.order_id = order}

\* C1: every user has at most one ticket row with closed_at and deleted_at
\* both unset, whatever the interleaving of create_ticket calls.
C1_OneLiveTicket ==
    \A u \in Users : Cardinality(LiveTickets(u)) <= 1

\* C2: at most one conversation is active for a ticket (its channel) at any
\* time: a restart retires the prior one before the new one waits for input.
C2_OneEngine ==
    \A ch \in 1..MaxChannels : Cardinality(EnginesOf(ch)) <= 1

C4_RaceOneRow ==
    [][ \A s \in DOMAIN calls, api_ok \in BOOLEAN :
          ( /\ Ends(s, api_ok)
            /\ last'.raced
            /\ ~calls[s].entitled /\ ~calls[s].owner
            /\ last'.outcome # "GatewayVerificationFailed"
            /\ \A x \in DOMAIN calls :
                  calls'[x].op = "check_payment"
                     => ResolvedOrder(calls'[x].ref) # ResolvedOrder(calls[s].ref) )
          => /\ Cardinality({p \in payments' :
                               p.order_id = ResolvedOrder(calls[s].ref)}) = 1
             /\ last'.outcome \in {"Accepted", "DuplicateOrder"} ]_vars

C7_Accepted ==
    [][ \A s \in DOMAIN calls :
          ( /\ Ends(s, TRUE)
            /\ ~calls[s].entitled /\ ~calls[s].owner /\ ~last'.raced
            /\ Acceptable(calls[s].ref)
            /\ ResolvedOrder(calls[s].ref) = SeedOrder
            /\ RowsOf(SeedOrder) = {} )
          => /\ last'.outcome = "Accepted"
             /\ PaymentRow(calls[s].user, calls[s].ref, SeedOrder) \in payments'
             /\ premium'[calls[s].user] ]_vars

\* C8: a create_ticket call made while the user has one live ticket, whose
\* channel resolves, answers "already open" with that channel and creates no
\* row, no channel and no conversation.
C8_Idempotent ==
    [][ \A u \in Users :
          ( /\ create_ticket(u)
            /\ Cardinality(LiveTickets(u)) = 1
            /\ \A i \in LiveTickets(u) : tickets[i].channel_id \in channels )
          => /\ last'.outcome = "AlreadyOpen"
             /\ \E i \in LiveTickets(u) : tickets[i].channel_id = last'.chan
             /\ tickets' = tickets /\ created' = created
             /\ engines' = engines ]_vars

\* C9: a create_ticket call made while the user's one live ticket points to
\* a channel that no longer resolves stamps deleted_at on that row and goes
\* on to create the new channel and row.
C9_OrphanReplaced ==
    [][ \A u \in Users :
          ( /\ create_ticket(u)
            /\ Cardinality(LiveTickets(u)) = 1
            /\ \A i \in LiveTickets(u) : tickets[i].channel_id \notin channels )
          => /\ \A i \in LiveTickets(u) : tickets'[i].deleted_at # NULL
             /\ \E s \in DOMAIN calls :
                   /\ calls'[s].op = "create_ticket"
                   /\ calls'[s].user = u
                   /\ calls'[s].pc = "create_channel" ]_vars

C12_Terminal ==
    [][ \A i \in DOMAIN tickets :
          ~Live(tickets[i]) => tickets'[i] = tickets[i] ]_vars

Rank(state) ==
    CASE state = "IDLE" -> 0
      [] state = "AWAITING_CURRENCY" -> 1
      [] state = "AWAITING_AMOUNT" -> 2
      [] state = "AWAITING_ORDER_ID" -> 3
      [] state = "AWAITING_CONFIRM_CLICK" -> 4
      [] state = "AWAITING_CONFIRMATION_ARTIFACT" -> 5
      [] state = "GOT_MESSAGE" -> 5

\* C14: a conversation starts in AWAITING_CURRENCY, moves only to the next
\* state of the order currency, amount, order id, intent created, artifact,
\* and is done only from the artifact state; it enters no other state.
C14_StateOrder ==
    [][ \A e \in DOMAIN engines :
          LET a == engines[e].state
              b == engines'[e].state
          IN /\ b \in Waiting \cup {"GOT_MESSAGE", "IDLE"}
             /\ (a = "IDLE" /\ b # "IDLE") => Rank(b) = 1
             /\ (a # "IDLE" /\ b # "IDLE") => Rank(b) \in {Rank(a), Rank(a) + 1}
             /\ (a # "IDLE" /\ b = "IDLE" /\ last'.outcome = "Done")
                   => Rank(a) = 5 ]_vars

\* A conversation has gone through every state and is done.
C14_Witness ==
    /\ last.op = "conversation" /\ last.outcome = "Done"
    /\ last.ref \in DOMAIN gateway

\* The fields a conversation has not been answered yet are unset.
Fresh(x) ==
    /\ Rank(x.state) <= 1 => x.currency = "-"
    /\ Rank(x.state) <= 2 => x.amount = 0
    /\ Rank(x.state) <= 3 => x.order_id = "-" /\ x.intent = 0

\* C15: a timeout discards what the conversation had collected, and every
\* conversation started afterwards begins in AWAITING_CURRENCY with currency,
\* amount, order id and intent unset; no state holds an answer it was not
\* given in its own attempt.
C15_FreshRestart ==
    [][ \A e \in DOMAIN engines :
          /\ handle_timeout(e) => engines'[e] = IdleEngine
          /\ (engines[e].state = "IDLE" /\ engines'[e].state # "IDLE")
                => engines'[e].state = "AWAITING_CURRENCY"
          /\ Fresh(engines'[e]) ]_vars

\* After an attempt that got as far as its PaymentIntent timed out, a restart
\* waits in AWAITING_CURRENCY.
C15_Witness ==
    \E e \in DOMAIN engines :
       /\ engines[e].state = "AWAITING_CURRENCY"
       /\ engines[e].chan \in restartViews
       /\ Len(gateway) > 0
       /\ \A x \in DOMAIN engines : engines[x].intent = 0

Typed(e) ==
    \E author \in Users : on_message(author, engines[e].chan, NoRef, "none")

C19_OrderIdNonEmpty ==
    [][ /\ \A i \in DOMAIN gateway' : gateway'[i].order_id # ""
        /\ \A e \in DOMAIN engines :
             engines[e].state = "AWAITING_ORDER_ID"
                => /\ engines'[e].state = "AWAITING_CONFIRM_CLICK"
                         => engines'[e].order_id \notin {"", "-"}
                   /\ \A by \in Users, text \in OrderInputs :
                         provide_order_id(e, by, text)
                            => IF text = " "
                               THEN /\ engines'[e].state = "IDLE"
                                    /\ gateway' = gateway
                               ELSE \/ /\ engines'[e].state = "AWAITING_CONFIRM_CLICK"
                                       /\ engines'[e].order_id = text
                                    \/ /\ engines'[e].state = "IDLE"
                                       /\ last'.outcome = "Error" ]_vars

\* A blank order id was refused after a PaymentIntent had been created for an
\* order id that is not blank.
C19_Witness ==
    /\ last.op = "conversation" /\ last.outcome = "NoOrderId"
    /\ Len(gateway) > 0

\* The currency codes of the buttons and the codes the gateway is given.
GatewayCode ==
    {<<"USD", "usd">>, <<"EUR", "eur">>, <<"GBP", "gbp">>}

\* C20: the gateway is asked for a PaymentIntent only in the step that takes
\* a conversation from AWAITING_ORDER_ID to the state after it, once, with
\* the currency, the amount (in hundredths) and the order id the conversation
\* was given; a conversation that has not completed AWAITING_ORDER_ID has no
\* intent, and one that has keeps the intent it created.
C20_OneIntent ==
    [][ /\ \A e \in DOMAIN engines :
             /\ Rank(engines'[e].state) <= 3 => engines'[e].intent = 0
             /\ Rank(engines'[e].state) > 3 => engines'[e].intent \in DOMAIN gateway'
             /\ (Rank(engines[e].state) > 3 /\ engines'[e].state # "IDLE")
                   => engines'[e].intent = engines[e].intent
        /\ \A i \in DOMAIN gateway : gateway'[i] = gateway[i]
        /\ Len(gateway') \in {Len(gateway), Len(gateway) + 1}
        /\ Len(gateway') = Len(gateway) + 1
              => \E e \in DOMAIN engines :
                    LET rec == gateway'[Len(gateway')] IN
                    /\ engines[e].state = "AWAITING_ORDER_ID"
                    /\ engines[e].currency \in Currencies
                    /\ engines[e].amount \in amounts
                    /\ engines'[e].state = "AWAITING_CONFIRM_CLICK"
                    /\ engines'[e].intent = Len(gateway')
                    /\ engines'[e].currency = engines[e].currency
                    /\ engines'[e].amount = engines[e].amount
                    /\ <<engines[e].currency, rec.currency>> \in GatewayCode
                    /\ rec.amount = engines[e].amount
                    /\ rec.order_id = engines'[e].order_id
                    /\ \A x \in DOMAIN engines \ {e} :
                          engines'[x] = engines[x] ]_vars

\* Two conversations each created their PaymentIntent, one for 168.95 EUR.
C20_Witness ==
    /\ Len(gateway) = 2
    /\ \E i \in DOMAIN gateway :
          gateway[i].amount = 16895 /\ gateway[i].currency = "eur"
    /\ \E e, x \in DOMAIN engines :
          engines[e].intent = 1 /\ engines[x].intent = 2

C22_ArtifactGate ==
    [][ \A e \in DOMAIN engines :
          (engines[e].state = "GOT_MESSAGE" /\ upload_payment_confirmation(e))
             => IF engines[e].got = engines[e].intent
                THEN last'.outcome = "Done"
                ELSE /\ engines'[e].state = "AWAITING_CONFIRMATION_ARTIFACT"
                     /\ engines'[e].intent = engines[e].intent
                     /\ last'.outcome = "Reprompt" ]_vars

\* C23: a message a conversation accepts as its artifact (it carries the
\* reference of its PaymentIntent) starts one verification of that reference
\* for its author.
C23_OneVerify ==
    [][ \A e \in DOMAIN engines :
          ( /\ engines[e].state = "AWAITING_CONFIRMATION_ARTIFACT"
            /\ engines'[e].state = "GOT_MESSAGE"
            /\ engines'[e].got = engines[e].intent )
          => Cardinality({s \in DOMAIN calls :
                            /\ calls[s].op = "none"
                            /\ calls'[s].op = "check_payment"
                            /\ calls'[s].user = engines[e].user
                            /\ calls'[s].ref = engines[e].intent}) = 1 ]_vars

\* C24: a verification of a reference the gateway does not know, or one the
\* gateway call fails on, ends as GatewayVerificationFailed; no Payment row is
\* inserted and premium is not set.
C24_GatewayFailure ==
    [][ \A s \in DOMAIN calls, api_ok \in BOOLEAN :
          ( /\ confirm_payment(s, api_ok)
            /\ calls[s].pc = "verify"
            /\ (~api_ok \/ calls[s].ref \notin DOMAIN gateway) )
          => /\ last' = [Reply("check_payment", calls[s].user,
                               "GatewayVerificationFailed", calls[s].chan,
                               calls[s].ref) EXCEPT !.raced = last'.raced]
             /\ calls'[s] = IdleCall
             /\ payments' = payments
             /\ premium' = premium ]_vars

\* A verification of a reference the gateway never issued was rejected.
C24_Witness ==
    /\ last.op = "check_payment"
    /\ last.outcome = "GatewayVerificationFailed"
    /\ last.ref \notin DOMAIN gateway
    /\ ~premium[last.user]

\* C25: a verification of a reference the gateway resolves, with an
\* acceptable status, to a record without order id ends as OrderIdMissing; no
\* Payment row is inserted and premium is not set.
C25_OrderIdMissing ==
    [][ \A s \in DOMAIN calls :
          ( /\ confirm_payment(s, TRUE)
            /\ calls[s].pc = "verify"
            /\ Acceptable(calls[s].ref)
            /\ gateway[calls[s].ref].order_id = "" )
          => /\ last'.outcome = "OrderIdMissing"
             /\ calls'[s] = IdleCall
             /\ payments' = payments
             /\ premium' = premium ]_vars

NotRejected(u, ref) ==
    \/ \E p \in payments' : p.user_id = u /\ p.payment_intent_id = ref
    \/ \E s \in DOMAIN calls :
          /\ calls'[s].op = "check_payment"
          /\ calls'[s].user = u /\ calls'[s].ref = ref

\* C28: a verification that is accepted ends with the role requested and the
\* admins notified, also when the role grant fails, and the admins are
\* notified of a confirmation only if it was not rejected.
C28_OneGrantEvent ==
    [][ /\ \A s \in DOMAIN calls, api_ok \in BOOLEAN :
              (Ends(s, api_ok) /\ payments' # payments)
                 => last'.outcome \in {"Accepted", "GrantFailed"}
        /\ \A e \in DOMAIN engines :
              (upload_payment_confirmation(e) /\ last'.outcome = "Done")
                 => NotRejected(engines[e].user, engines[e].intent) ]_vars

\* The replies that tell the user a request was refused or has failed.
Rejections ==
    {"Error", "NoUser", "NotFound", "NotYourChannel", "Timeout", "NoOrderId",
     "Mismatch", "InvalidAttachment", "GatewayVerificationFailed",
     "OrderIdMissing", "DuplicateOrder"}

\* C29: a step that ends with a rejection or a failure leaves the users,
\* their premium flags, the tickets and the payments as they were, and only
\* an accepted verification changes payments or premium.
C29_FailuresKeepStores ==
    [][ /\ last'.outcome \in Rejections
              => /\ users' = users /\ premium' = premium
                 /\ tickets' = tickets /\ payments' = payments
        /\ (payments' # payments \/ premium' # premium)
              => \E s \in DOMAIN calls, api_ok \in BOOLEAN :
                    Ends(s, api_ok) /\ last'.outcome \in GrantOutcomes ]_vars

\* The step is an input delivered in channel ch: a button or modal of one of
\* its conversations, a message posted in it, the end of a wait of one of its
\* conversations, or a restart asked there.
InputIn(ch) ==
    \/ \E e \in DOMAIN engines, by \in Users :
          /\ engines[e].chan = ch
          /\ \/ \E cur \in Currencies : select_currency(e, by, cur)
             \/ \E amt \in amounts : select_amount(e, by, amt)
             \/ \E text \in OrderInputs : provide_order_id(e, by, text)
             \/ confirm_click(e, by)
    \/ \E e \in DOMAIN engines :
          /\ engines[e].chan = ch
          /\ handle_timeout(e) \/ upload_payment_confirmation(e)
    \/ \E author \in Users, ref \in NoRef..MaxIntents,
          att \in {"image", "other", "none"} : on_message(author, ch, ref, att)
    \/ \E u \in Users : restart_payment(u, ch) \/ start_over(u, ch)

\* C30: a conversation changes (state, collected fields, wait) in no step
\* that is an input delivered in another ticket channel than its own, also
\* when both tickets belong to the same user.
C30_Isolation ==
    [][ \A e \in DOMAIN engines :
          (engines[e].state # "IDLE" /\ engines'[e] # engines[e])
             => \A ch \in 1..MaxChannels \ {engines[e].chan} : ~InputIn(ch) ]_vars

\* Two conversations of one user run in different channels, one waiting for
\* its artifact, the other for its amount.
C30_Witness ==
    \E e, x \in DOMAIN engines :
       /\ engines[e].chan # engines[x].chan
       /\ engines[e].user = engines[x].user
       /\ engines[e].state = "AWAITING_CONFIRMATION_ARTIFACT"
       /\ engines[x].state = "AWAITING_AMOUNT"
       /\ engines[x].currency = "EUR"

\* C31: the order-id step checks no uniqueness: a conversation that is given
\* an order id another user's ticket already proposed still advances and
\* obtains an intent of its own; and of the verifications of two such
\* intents, of different users' tickets, the first to end past the gateway
\* stores the Payment row and every later one ends as DuplicateOrder.
C31_SharedOrderId ==
    [][ /\ \A e \in DOMAIN engines, by \in Users :
              ( /\ provide_order_id(e, by, SeedOrder)
                /\ \E i \in DOMAIN gateway : gateway[i].order_id = SeedOrder
                /\ last'.outcome # "Error" )
              => /\ engines'[e].state = "AWAITING_CONFIRM_CLICK"
                 /\ engines'[e].intent = Len(gateway')
                 /\ engines'[e].intent \notin DOMAIN gateway
        /\ \A s \in DOMAIN calls, api_ok \in BOOLEAN :
              ( /\ Ends(s, api_ok)
                /\ ~calls[s].entitled /\ ~calls[s].owner
                /\ last'.outcome # "GatewayVerificationFailed"
                /\ \E e1, e2 \in DOMAIN engines :
                      /\ engines[e1].user = calls[s].user
                      /\ engines[e2].user # calls[s].user
                      /\ engines[e1].intent = calls[s].ref
                      /\ engines[e2].intent \in DOMAIN gateway
                      /\ engines[e1].order_id = engines[e2].order_id )
              => IF RowsOf(gateway[calls[s].ref].order_id) = {}
                 THEN payments' = payments \cup
                         {PaymentRow(calls[s].user, calls[s].ref,
                                     gateway[calls[s].ref].order_id)}
                 ELSE /\ last'.outcome = "DuplicateOrder"
                      /\ payments' = payments ]_vars

\* C32: a create_ticket call starts exactly one conversation for each Ticket
\* row it inserts, in AWAITING_CURRENCY, in the channel of the row and in the
\* step that has the row committed; a call that ends as Error or AlreadyOpen
\* and every other step of a call start none.
C32_EnginePerRow ==
    [][ \A s \in DOMAIN calls :
          (calls[s].op = "create_ticket" /\ calls'[s] # calls[s])
          => IF Len(tickets') = Len(tickets) + 1
             THEN \E e \in DOMAIN engines :
                     /\ engines[e].state = "IDLE"
                     /\ engines'[e] = [IdleEngine EXCEPT
                                          !.state = "AWAITING_CURRENCY",
                                          !.chan = tickets'[Len(tickets')].channel_id,
                                          !.user = tickets'[Len(tickets')].user_id]
                     /\ \A x \in DOMAIN engines \ {e} : engines'[x] = engines[x]
             ELSE engines' = engines ]_vars

\* C33: when the creation of the PaymentIntent fails, the conversation ends
\* with the error message, its currency, amount and order id are dropped,
\* nothing is stored at the gateway or in the tables, no intent reference is
\* shown and no restart view is posted; otherwise the step obtains a new
\* intent and waits for the confirm button.
C33_CreateIntentFails ==
    [][ \A e \in DOMAIN engines, by \in Users :
          ( /\ engines[e].state = "AWAITING_ORDER_ID"
            /\ provide_order_id(e, by, SeedOrder) )
          => \/ /\ Len(gateway') = Len(gateway) + 1
                /\ engines'[e].state = "AWAITING_CONFIRM_CLICK"
                /\ engines'[e].intent = Len(gateway')
             \/ /\ gateway' = gateway
                /\ engines'[e] = IdleEngine
                /\ last' = Reply("conversation", engines[e].user, "Error",
                                 engines[e].chan, 0)
                /\ UNCHANGED <<users, premium, tickets, payments,
                               restartViews>> ]_vars

\* A conversation ended on the failed creation of its first intent.
C33_Witness ==
    /\ last.op = "conversation" /\ last.outcome = "Error"
    /\ last.chan \in channels /\ last.ref = 0
    /\ gateway = << >>
    /\ \A e \in DOMAIN engines : engines[e].chan # last.chan

\* C34: whatever create_ticket and delete_ticket calls were made, the query of
\* get_existing_ticket matches at most one row of a user and never a row
\* whose deleted_at is set.
C34_LookupLiveOnly ==
    \A u \in Users :
       /\ Cardinality(MatchingTickets(u, NoChannel)) <= 1
       /\ \A i \in MatchingTickets(u, NoChannel) : tickets[i].deleted_at = NULL

C37_OwnerOnly ==
    [][ \A e \in DOMAIN engines, by \in Accounts :
          ( /\ engines[e].state # "IDLE"
            /\ by # engines[e].user
            /\ \/ select_currency(e, by, "USD")
               \/ select_amount(e, by, 5995)
               \/ provide_order_id(e, by, SeedOrder)
               \/ confirm_click(e, by)
               \/ \E ref \in NoRef..MaxIntents :
                     on_message(by, engines[e].chan, ref, "other") )
          => engines'[e] = engines[e] ]_vars

\* C38: once the create_ticket call that created a channel has returned, with
\* a reply or an error, exactly one Ticket row references that channel, and
\* every live Ticket row references a channel that create_ticket created.
C38_ChannelWithRow ==
    /\ \A ch \in DOMAIN created :
          (\A s \in DOMAIN calls :
              ~(calls[s].op = "create_ticket" /\ calls[s].chan = ch))
          => Cardinality({i \in DOMAIN tickets : tickets[i].channel_id = ch}) = 1
    /\ \A i \in DOMAIN tickets :
          Live(tickets[i]) => tickets[i].channel_id \in DOMAIN created

\* C39: every conversation that waits, at whatever step, is eventually gone
\* (done, timed out or ended by an error), given that the timer of each wait
\* fires when no input ends the wait.
C39_Retires ==
    \A e \in 1..MaxEngines :
       (engines[e].state # "IDLE") ~> (engines[e].state = "IDLE")

\* A conversation ended at the timeout of its currency step: nothing was
\* selected and the restart view is shown.
C39_Witness ==
    /\ last.op = "conversation" /\ last.outcome = "Timeout"
    /\ last.chan \in restartViews
    /\ gateway = << >>
    /\ \A e \in DOMAIN engines : engines[e].state = "IDLE"

\* The number of waits a check_subscription call has begun stays within
\* MAX_RETRIES, and a timeout of its wait either sends the notice with the
\* number of attempts that remain and waits again (before the last attempt)
\* or ends the call without a lookup and without a change of the stores.
EmailTimeouts ==
    \A s \in DOMAIN calls :
       /\ calls[s].op = "check_subscription"
             => calls[s].attempt \in 1..MAX_RETRIES
       /\ calls'[s].op = "check_subscription"
             => calls'[s].attempt \in 1..MAX_RETRIES
       /\ ( /\ calls[s].op = "check_subscription"
            /\ get_user_email_timeout(s) )
          => IF calls[s].attempt < MAX_RETRIES
             THEN /\ calls'[s] = [calls[s] EXCEPT !.attempt = @ + 1]
                  /\ last'.outcome = "AttemptsRemaining"
                  /\ last'.ref = MAX_RETRIES - calls[s].attempt
                  /\ last'.ref >= 1
             ELSE /\ calls'[s] = IdleCall
                  /\ last'.outcome = "SessionTimedOut"
                  /\ calls[s].lookups = 0
                  /\ UNCHANGED <<users, premium, tickets, payments>>

\* A check_subscription call that ends after get_customer_by_email answered
\* has called it once.
OneLookup ==
    \A s \in DOMAIN calls, result \in LookupResults :
       ( /\ calls[s].op = "check_subscription"
         /\ process_subscription(s, result) )
       => calls[s].lookups = 1

\* C40: get_user_email waits at most MAX_RETRIES times; the first DM of the
\* user ends the waiting and leads to exactly one customer lookup; a timeout
\* before the last sends the notice of the remaining attempts and waits
\* again; the last timeout ends the command without lookup or store change.
C40_EmailPrompt ==
    [][ /\ EmailTimeouts
        /\ OneLookup
        /\ \A by \in Users, text \in EmailInputs :
              get_user_email(by, text)
              => \A s \in EmailWaiters(by) :
                    /\ calls'[s].pc = "process_subscription"
                    /\ calls'[s].lookups = 1 ]_vars

====
